---- MODULE Spec2Model ----
(***************************************************************************)
(* Model of the ELF dependency analyzers of cloudberry-devops-release:     *)
(*   scripts/elf_rockylinux_dependency_analyzer.py   (variant "rocky")     *)
(*   scripts/elf_ubuntu_dependency_analyzer.py       (variant "ubuntu")    *)
(*   scripts/elf_dependency_analyzer.py              (variant "generic")   *)
(*                                                                         *)
(* A Python str is a sequence of atoms (TLA+ strings): every separator the *)
(* code splits or searches on ("=>", "-", ":", "/", white space) is an     *)
(* atom of its own, so split, strip, startswith, basename and the `in`     *)
(* test are computed on the text as the code computes them.                *)
(***************************************************************************)
EXTENDS Integers, Sequences, FiniteSets, TLC

(***************************************************************************)
(* Python values                                                           *)
(***************************************************************************)
NoneV == [none |-> TRUE, val |-> <<>>]

Some(v) == [none |-> FALSE, val |-> v]

\* Python truthiness of an optional str / tuple: None and "" are falsy
Truthy(r) == (~r.none) /\ r.val # <<>>

IsWs(a) == a \in {" ", "\t", "\n"}

\* sub in s
Contains(s, sub) ==
  \E i \in 0..(Len(s) - Len(sub)) : SubSeq(s, i + 1, i + Len(sub)) = sub

\* s.startswith(p)
StartsWith(s, p) == Len(p) <= Len(s) /\ SubSeq(s, 1, Len(p)) = p

RECURSIVE SplitOn(_, _)
\* s.split(sep) for a one-atom separator: always at least one part
SplitOn(s, sep) ==
  IF \E i \in 1..Len(s) : s[i] = sep
  THEN LET i == CHOOSE k \in 1..Len(s) : s[k] = sep /\ \A j \in 1..(k - 1) : s[j] # sep
       IN  <<SubSeq(s, 1, i - 1)>> \o SplitOn(SubSeq(s, i + 1, Len(s)), sep)
  ELSE <<s>>

RECURSIVE LStrip(_)
LStrip(s) == IF s # <<>> /\ IsWs(Head(s)) THEN LStrip(Tail(s)) ELSE s

RECURSIVE RStrip(_)
RStrip(s) == IF s # <<>> /\ IsWs(s[Len(s)]) THEN RStrip(SubSeq(s, 1, Len(s) - 1)) ELSE s

\* s.strip()
Strip(s) == RStrip(LStrip(s))

RECURSIVE SplitWs(_)
\* s.split(): the maximal runs of non-blank atoms, no empty token
SplitWs(s) ==
  LET t == LStrip(s) IN
  IF t = <<>> THEN <<>>
  ELSE LET n == IF \E i \in 1..Len(t) : IsWs(t[i])
                THEN (CHOOSE k \in 1..Len(t) : IsWs(t[k]) /\ \A j \in 1..(k - 1) : ~IsWs(t[j])) - 1
                ELSE Len(t)
       IN  <<SubSeq(t, 1, n)>> \o SplitWs(SubSeq(t, n + 1, Len(t)))

\* s.splitlines()
SplitLines(s) ==
  LET parts == SplitOn(s, "\n") IN
  IF parts[Len(parts)] = <<>> THEN SubSeq(parts, 1, Len(parts) - 1) ELSE parts

\* os.path.basename(p)
Basename(p) == LET parts == SplitOn(p, "/") IN parts[Len(parts)]

\* os.path.join(directory, name)
PathJoin(directory, name) ==
  IF directory = <<>> \/ directory[Len(directory)] = "/"
  THEN directory \o name
  ELSE directory \o <<"/">> \o name

Range(f) == {f[i] : i \in DOMAIN f}

(***************************************************************************)
(* The machine the analyzers run on: files, package databases, utilities.  *)
(***************************************************************************)
CWD == <<"/", "work">>

LIBZ == <<"/", "lib64", "/", "libz.so", ".1">>

LIBSSL == <<"/", "lib64", "/", "libssl.so", ".1.1">>

LIBSSL_REAL == <<"/", "usr", "/", "lib64", "/", "libssl.so", ".1.1.1k">>

LIBCRYPTO == <<"/", "lib64", "/", "libcrypto.so", ".1.1">>

LIBMINE == <<"/", "opt", "/", "lib", "/", "libmine.so">>

LIBALT_STALE == <<"/", "gone", "/", "libalt.so">>

LIBALT == <<"/", "opt", "/", "ld", "/", "libalt.so">>

LIBPQ == <<"/", "usr", "/", "local", "/", "cloudberry-db", "/", "lib", "/", "libpq.so", ".5">>

\* a second libalt.so, in the other directory of the search path
LIBALT_OPT == <<"/", "opt", "/", "lib", "/", "libalt.so">>

\* a library lying in the working directory
LIBLOCAL == <<"/", "work", "/", "liblocal.so">>

\* a library of an installation next to the custom prefix
LIBPQ_NEXT ==
  <<"/", "usr", "/", "local", "/", "cloudberry-db", "-old", "/", "lib", "/", "libpq.so", ".5">>

ADDR == "(0x7f)"

\* what the analyzers are pointed at
BIN_A == <<"/", "bin", "/", "a">>

PSQL == <<"/", "bin", "/", "psql">>

MOTD == <<"/", "etc", "/", "motd">>

APP_DIR == <<"/", "opt", "/", "app">>

APP_X == <<"/", "opt", "/", "app", "/", "x">>

APP_NOTES == <<"/", "opt", "/", "app", "/", "notes">>

NOPE == <<"/", "nope">>

ElfExecutables == {BIN_A, PSQL, APP_X}

TextFiles == {MOTD, APP_NOTES}

\* os.path.isfile
SharedObjects ==
  {LIBZ, LIBSSL, LIBSSL_REAL, LIBCRYPTO, LIBMINE, LIBALT, LIBPQ, LIBALT_OPT, LIBLOCAL,
   LIBPQ_NEXT}

RegularFiles == SharedObjects \cup ElfExecutables \cup TextFiles

Directories ==
  {<<"/", "lib64">>, <<"/", "opt", "/", "lib">>, <<"/", "opt", "/", "ld">>, APP_DIR, CWD}

\* the files os.walk finds under a directory
FilesUnder(d) ==
  CASE d = APP_DIR -> {APP_X, APP_NOTES}
    [] d = CWD -> {LIBLOCAL}
    [] OTHER -> {}

\* a relative path is looked up from the working directory
Absolute(p) == IF p # <<>> /\ p[1] = "/" THEN p ELSE PathJoin(CWD, p)

isfile(p) == Absolute(p) \in RegularFiles

isdir(p) == Absolute(p) \in Directories

exists(p) == Absolute(p) \in RegularFiles \cup Directories

\* os.path.realpath: absolute, symbolic links dereferenced
realpath(p) == IF Absolute(p) = LIBSSL THEN LIBSSL_REAL ELSE Absolute(p)

\* an exit status and the text written to stdout and stderr
Exit(rc, out) == [rc |-> rc, out |-> out]

\* rpm -qf <path>; the utility looks a relative path up from the working directory
rpm_qf(p) ==
  CASE Absolute(p) = LIBZ -> Exit(0, <<"zlib", "-", "1.2.11", "\n">>)
    [] Absolute(p) \in {LIBSSL, LIBSSL_REAL, LIBCRYPTO} ->
         Exit(0, <<"openssl", "-", "libs", "-", "1.1.1k", "\n">>)
    [] Absolute(p) = LIBALT -> Exit(0, <<"alt", "-", "1.0", "\n">>)
    [] Absolute(p) = LIBALT_OPT -> Exit(0, <<"altopt", "-", "2.0", "\n">>)
    [] Absolute(p) = LIBLOCAL -> Exit(0, <<"local", "-", "0.1", "\n">>)
    [] OTHER -> Exit(1, <<"file ">> \o p \o <<" is not owned by any package", "\n">>)

\* dpkg -S <path>
dpkg_S(p) ==
  CASE p = LIBZ -> Exit(0, <<"zlib1g", ":", "amd64", ":", " ">> \o p \o <<"\n">>)
    [] p \in {LIBSSL, LIBSSL_REAL, LIBCRYPTO} ->
         Exit(0, <<"libssl1.1", ":", "amd64", ":", " ">> \o p \o <<"\n">>)
    [] p \in {LIBPQ, LIBPQ_NEXT} -> Exit(0, <<"libpq5", ":", "amd64", ":", " ">> \o p \o <<"\n">>)
    [] OTHER -> Exit(1, <<"dpkg-query: no path found matching pattern ">> \o p \o <<"\n">>)

\* file <path>; env.file_fails are the paths on which the utility exits non-zero
file_cmd(p, env) ==
  IF p \in env.file_fails THEN Exit(1, p \o <<":", " ", "cannot open", "\n">>)
  ELSE IF p \in SharedObjects
       THEN Exit(0, p \o <<":", " ", "ELF", " ", "64-bit LSB", " ", "shared object", "\n">>)
  ELSE IF p \in ElfExecutables
       THEN Exit(0, p \o <<":", " ", "ELF", " ", "64-bit LSB", " ", "executable", "\n">>)
  ELSE IF p \in TextFiles
       THEN Exit(0, p \o <<":", " ", "ASCII text", "\n">>)
       ELSE Exit(0, p \o <<":", " ", "cannot open", "\n">>)

\* run_command, given what the command did
run_command(res) == IF res.rc = 0 THEN Some(res.out) ELSE NoneV

(***************************************************************************)
(* Package ownership lookup                                                *)
(***************************************************************************)
RECURSIVE first_isfile(_, _)
first_isfile(dirs, lib_name) ==
  IF dirs = <<>> THEN NoneV
  ELSE IF isfile(PathJoin(Head(dirs), lib_name))
       THEN Some(PathJoin(Head(dirs), lib_name))
       ELSE first_isfile(Tail(dirs), lib_name)

\* os.environ.get('LD_LIBRARY_PATH', ''): the variable may be unset
environ_get(variable) == IF variable.none THEN <<>> ELSE variable.val

find_library_in_ld_library_path(lib_name, env) ==
  first_isfile(SplitOn(environ_get(env.LD_LIBRARY_PATH), ":"), lib_name)

\* get_package_info, lines 95-99: the path whose owner is asked for
resolve(path, env) ==
  IF isfile(path) THEN Some(path)
  ELSE find_library_in_ld_library_path(Basename(path), env)

\* rockylinux and generic variants
get_package_info(path, env) ==
  LET found == resolve(path, env)
  IN  IF ~Truthy(found) THEN NoneV
      ELSE LET full_package_name == run_command(rpm_qf(found.val))
           IN  IF Truthy(full_package_name)
               THEN Some(<<SplitOn(full_package_name.val, "-")[1],
                           Strip(full_package_name.val)>>)
               ELSE NoneV

CUSTOM_PREFIX == <<"/", "usr", "/", "local", "/", "cloudberry-db">>

core_libs ==
  << <<"libc.so", <<"libc6">> >>,          <<"libm.so", <<"libc6">> >>,
     <<"libdl.so", <<"libc6">> >>,         <<"libpthread.so", <<"libc6">> >>,
     <<"libresolv.so", <<"libc6">> >>,     <<"librt.so", <<"libc6">> >>,
     <<"libgcc_s.so", <<"libgcc-s1">> >>,  <<"libstdc++.so", <<"libstdc++6">> >>,
     <<"libz.so", <<"zlib1g">> >>,         <<"libbz2.so", <<"libbz2-1.0">> >>,
     <<"libpam.so", <<"libpam0g">> >>,     <<"libaudit.so", <<"libaudit1">> >>,
     <<"libcap-ng.so", <<"libcap-ng0">> >>, <<"libkeyutils.so", <<"libkeyutils1">> >>,
     <<"liblzma.so", <<"liblzma5">> >>,    <<"libcom_err.so", <<"libcomerr2">> >> >>

\* what a get_package_info call returned and the utilities it ran
Answer(info, ran) == [info |-> info, ran |-> ran]

\* the ubuntu get_package_info, with the run_command calls it makes
lookup_ubuntu(path, env) ==
  IF StartsWith(path, CUSTOM_PREFIX)
  THEN Answer(Some(<<<<"cloudberry-custom">>, <<"Cloudberry custom library: ">> \o path>>),
              <<>>)
  ELSE LET dpkg_output == run_command(dpkg_S(path)) IN
       IF Truthy(dpkg_output)
       THEN Answer(Some(<<SplitOn(dpkg_output.val, ":")[1], Strip(dpkg_output.val)>>),
                   <<"dpkg">>)
       ELSE LET lib_name == Basename(path)
                hits == {i \in DOMAIN core_libs : StartsWith(lib_name, <<core_libs[i][1]>>)}
            IN  IF hits # {}
                THEN LET i == CHOOSE k \in hits : \A j \in hits : k <= j
                     IN  Answer(Some(<<core_libs[i][2], <<"Core system library: ">> \o path>>),
                                <<"dpkg">>)
                ELSE LET file_output == run_command(file_cmd(path, env)) IN
                     IF Truthy(file_output)
                     THEN Answer(Some(<<<<"system-library">>,
                                        <<"System library: ">> \o path \o <<" - ">>
                                          \o Strip(file_output.val)>>),
                                 <<"dpkg", "file">>)
                     ELSE Answer(NoneV, <<"dpkg", "file">>)

get_package_info_ubuntu(path, env) == lookup_ubuntu(path, env).info

(***************************************************************************)
(* process_binary: the per-line classification of the linker output.       *)
(* A result holds the three lists, the exception that left the loop (or    *)
(* "none") and, for every line whose loop body ran to its end, what the    *)
(* body did with the line.                                                 *)
(***************************************************************************)
known_special_cases == {<<"linux-vdso.so", ".1">>, <<"ld-linux-x86-64.so", ".2">>}

NOT_FOUND == <<"not", " ", "found">>

EmptyResult ==
  [packages |-> <<>>, special_cases |-> <<>>, missing_libraries |-> <<>>,
   exc |-> "none", kinds |-> <<>>]

Skip(acc) == [acc EXCEPT !.kinds = Append(@, "skipped")]

AddPackage(acc, info) ==
  [acc EXCEPT !.packages = Append(@, info), !.kinds = Append(@, "package")]

AddSpecial(acc, case) ==
  [acc EXCEPT !.special_cases = Append(@, case), !.kinds = Append(@, "special")]

AddMissing(acc, lib) ==
  [acc EXCEPT !.missing_libraries = Append(@, lib), !.kinds = Append(@, "missing")]

Raise(acc, e) == [acc EXCEPT !.exc = e]

\* one pass of the for loop of the rockylinux process_binary
rocky_line(line, acc, env) ==
  IF \E special \in known_special_cases : Contains(line, special) THEN Skip(acc)
  ELSE LET parts == SplitOn(line, "=>")
           lib_name == Strip(parts[1])
       IN
       IF Contains(line, NOT_FOUND) THEN AddMissing(acc, lib_name)
       ELSE IF Len(parts) > 1
            THEN IF SplitWs(parts[2]) = <<>> THEN Raise(acc, "IndexError")
                 ELSE LET lib_path == SplitWs(parts[2])[1] IN
                      IF lib_path # <<"not">>
                      THEN LET package_info == get_package_info(lib_path, env) IN
                           IF Truthy(package_info) THEN AddPackage(acc, package_info.val)
                           ELSE IF exists(lib_path)
                                THEN AddSpecial(acc, lib_path \o <<" is a custom or non-RPM library">>)
                                ELSE AddSpecial(acc, lib_path \o <<" is not found and might be a special case">>)
                      ELSE AddSpecial(acc, Strip(line) \o <<" is a special case or built-in library">>)
            ELSE AddSpecial(acc, Strip(line) \o <<" is a special case or built-in library">>)

\* one pass of the for loop of the ubuntu process_binary
ubuntu_line(line, acc, env) ==
  IF ~Contains(line, <<"=>">>) THEN Skip(acc)
  ELSE LET parts == SplitOn(line, "=>")
           lib_name == Strip(parts[1])
       IN
       IF SplitWs(parts[2]) = <<>> THEN Raise(acc, "IndexError")
       ELSE LET lib_path == realpath(Strip(SplitWs(parts[2])[1])) IN
            IF lib_path = <<"not">> THEN AddMissing(acc, lib_name)
            ELSE LET package_info == get_package_info_ubuntu(lib_path, env) IN
                 IF Truthy(package_info) THEN AddPackage(acc, package_info.val)
                 ELSE AddSpecial(acc, lib_path \o <<" is not found and might be a special case">>)

IsAddress(a) == a = ADDR

\* re.search(r'\s*(\S+) => (\S+) \((0x[0-9a-f]+)\)', line): the positions of
\* a "=>" that has a non-blank before " =>", and " <token> (0x..)" after it
LddMatches(line) ==
  {k \in 3..(Len(line) - 4) :
     /\ line[k] = "=>" /\ line[k - 1] = " " /\ ~IsWs(line[k - 2])
     /\ line[k + 1] = " "
     /\ \E e \in (k + 2)..(Len(line) - 2) :
          /\ \A j \in (k + 2)..e : ~IsWs(line[j])
          /\ line[e + 1] = " " /\ IsAddress(line[e + 2])}

\* parse_ldd_line of the generic variant: group(2) of the leftmost match
parse_ldd_line(line) ==
  IF LddMatches(line) = {} THEN NoneV
  ELSE LET k == CHOOSE m \in LddMatches(line) : \A j \in LddMatches(line) : m <= j
           e == CHOOSE x \in (k + 2)..(Len(line) - 2) :
                  /\ \A j \in (k + 2)..x : ~IsWs(line[j])
                  /\ line[x + 1] = " " /\ IsAddress(line[x + 2])
       IN  Some(SubSeq(line, k + 2, e))

\* one pass of the for loop of the generic process_binary
generic_line(line, acc, env) ==
  IF \E special \in known_special_cases : Contains(line, special) THEN Skip(acc)
  ELSE LET lib_path == parse_ldd_line(line) IN
       IF Truthy(lib_path)
       THEN LET package_info == get_package_info(lib_path.val, env) IN
            IF Truthy(package_info) THEN AddPackage(acc, package_info.val)
            ELSE IF exists(lib_path.val)
                 THEN AddSpecial(acc, lib_path.val \o <<" is a custom or non-RPM library">>)
                 ELSE AddSpecial(acc, lib_path.val \o <<" is not found and might be a special case">>)
       ELSE AddSpecial(acc, <<"None", " is a special case or built-in library">>)

classify(v, line, acc, env) ==
  CASE v = "rocky" -> rocky_line(line, acc, env)
    [] v = "ubuntu" -> ubuntu_line(line, acc, env)
    [] OTHER -> generic_line(line, acc, env)

RECURSIVE for_lines(_, _, _, _)
\* the loop stops at the first line that raises
for_lines(v, lines, acc, env) ==
  IF lines = <<>> \/ acc.exc # "none" THEN acc
  ELSE for_lines(v, Tail(lines), classify(v, Head(lines), acc, env), env)

\* process_binary, given what `ldd <binary_path>` did
process_binary(v, ldd, env) ==
  LET ldd_output == run_command(ldd) IN
  IF ldd_output.none THEN EmptyResult
  ELSE for_lines(v, SplitLines(ldd_output.val), EmptyResult, env)

(***************************************************************************)
(* Linker output the analyzers are run on                                  *)
(***************************************************************************)
Arrow(name, target) == <<"\t">> \o name \o <<" ", "=>", " ">> \o target

Resolved(name, path) == Arrow(name, path \o <<" ", ADDR>>)

VDSO == <<"linux-vdso.so", ".1">>

LD_SO == <<"/", "lib64", "/", "ld-linux-x86-64.so", ".2">>

LddLines ==
  { Resolved(<<"libz.so", ".1">>, LIBZ),
    Resolved(<<"libssl.so", ".1.1">>, LIBSSL),
    Resolved(<<"libmine.so">>, LIBMINE),
    Resolved(<<"libalt.so">>, LIBALT_STALE),
    Resolved(<<"libpq.so", ".5">>, LIBPQ),
    Arrow(<<"libcustom.so">>, NOT_FOUND),
    <<"\t">> \o VDSO \o <<" ", ADDR>>,
    Arrow(VDSO, <<" ", ADDR>>),
    Arrow(VDSO, NOT_FOUND),
    <<"\t">> \o LD_SO \o <<" ", ADDR>>,
    <<"\t", "libbad.so", " ", "=>">>,
    <<"\t", "libbad.so", " ", "=>", " ">>,
    <<"\t", "statically", " ", "linked">>,
    Arrow(<<"liba.so">>, LIBZ \o <<" ", "=>", " ">> \o LIBMINE \o <<" ", ADDR>>) }

MaxLines == 2

RECURSIVE JoinLines(_)
JoinLines(lines) ==
  IF lines = <<>> THEN <<>> ELSE Head(lines) \o <<"\n">> \o JoinLines(Tail(lines))

LddTexts ==
  {JoinLines(ls) : ls \in UNION {[1..n -> LddLines] : n \in 0..MaxLines}}

\* what `ldd <binary>` can do: print the resolution and exit 0, or fail
LddRuns == {Exit(0, t) : t \in LddTexts} \cup {Exit(1, <<"not a dynamic executable", "\n">>)}

Variants == {"rocky", "ubuntu", "generic"}

LD_PATH == <<"/", "opt", "/", "ld", ":", "/", "opt", "/", "lib">>

\* LD_LIBRARY_PATH of the process, the paths `file` cannot inspect, and the
\* commands that are not installed
Env(ld, fails, absent) ==
  [LD_LIBRARY_PATH |-> ld, file_fails |-> fails, missing_commands |-> absent]

ParseEnvs == {Env(Some(LD_PATH), fails, {}) : fails \in SUBSET {PathJoin(CWD, <<ADDR>>)}}

(***************************************************************************)
(* The accumulators of a run: grand_summary and grand_missing_libraries    *)
(* are defaultdict(set), modelled as functions on the keys present.        *)
(***************************************************************************)
EmptyDict == [k \in {} |-> {}]

\* d[key].add(item) on a defaultdict(set)
DictAdd(d, key, item) ==
  [k \in DOMAIN d \cup {key} |->
     (IF k \in DOMAIN d THEN d[k] ELSE {}) \cup (IF k = key THEN {item} ELSE {})]

RECURSIVE add_packages(_, _)
\* for package_name, full_package_name in packages: grand_summary[..].add(..)
add_packages(summary, packages) ==
  IF packages = <<>> THEN summary
  ELSE add_packages(DictAdd(summary, Head(packages)[1], Head(packages)[2]), Tail(packages))

RECURSIVE add_missing(_, _, _)
\* for lib in missing_libraries: grand_missing_libraries[lib].add(path)
add_missing(missing, libs, path) ==
  IF libs = <<>> THEN missing
  ELSE add_missing(DictAdd(missing, Head(libs), path), Tail(libs), path)

\* grand_special_cases.extend((case, path) for case in special_cases)
extend_special(grand, cases, path) ==
  grand \o [i \in DOMAIN cases |-> <<cases[i], path>>]

\* the generic variant keeps the cases without the binary:
\* grand_special_cases.extend(special_cases)
extend_cases(grand, cases) == grand \o cases

\* is_elf_binary, given what `file <path>` did: 'ELF' in None raises TypeError
is_elf_binary(file_path, e) ==
  LET file_output == run_command(file_cmd(file_path, e)) IN
  IF file_output.none THEN [exc |-> "TypeError", val |-> FALSE]
  ELSE [exc |-> "none",
        val |-> /\ Contains(file_output.val, <<"ELF">>)
                /\ \/ Contains(file_output.val, <<"executable">>)
                   \/ Contains(file_output.val, <<"shared object">>)]

(***************************************************************************)
(* Dependency graph builder                                                *)
(***************************************************************************)
\* all orders in which a set can be iterated
Perms(S) ==
  {q \in [1..Cardinality(S) -> S] : \A i, j \in DOMAIN q : q[i] = q[j] => i = j}

\* the package repository, as `repoquery --requires --resolve <package>` shows it
RepoSparse == [p \in {<<"alt">>} |-> <<>>]

RepoChain ==
  [p \in {<<"openssl">>, <<"zlib">>, <<"alt">>} |->
     CASE p = <<"openssl">> -> <<"zlib", "-", "1.2.11", "\n">>
       [] p = <<"zlib">> -> <<"alt", "-", "1.0", "\n", "glibc", "-", "2.34", "\n">>
       [] OTHER -> <<>>]

RepoShared ==
  [p \in {<<"openssl">>, <<"zlib">>} |->
     CASE p = <<"openssl">> -> <<"alt", "-", "1.0", "\n", "zlib", "-", "1.2.11", "\n">>
       [] OTHER -> <<"alt", "-", "1.0", "\n">>]

Repos == {RepoSparse, RepoChain, RepoShared}

repoquery(repo, package) ==
  IF package \in DOMAIN repo THEN Exit(0, repo[package])
  ELSE Exit(1, <<>>)

\* get_package_dependencies that drops the empty lines of the output
get_package_dependencies_nonblank(repo, package) ==
  LET res == repoquery(repo, package) IN
  IF res.rc = 0 THEN Range(SplitOn(Strip(res.out), "\n")) \ {<<>>} ELSE {}

\* get_package_dependencies: the set of lines of the output, or set() when
\* the command exits non-zero
get_package_dependencies(repo, package) ==
  LET res == repoquery(repo, package) IN
  IF res.rc = 0 THEN Range(SplitOn(Strip(res.out), "\n")) ELSE {}

\* the set of the full package names, not cut at the first "-"
all_packages_full(summary) == UNION {summary[k] : k \in DOMAIN summary}

\* set of the short names of the full package names of the grand summary
all_packages(summary) ==
  {SplitOn(full, "-")[1] : full \in UNION {summary[k] : k \in DOMAIN summary}}

RECURSIVE build_in_order(_, _)
\* the graphs the loop over all_packages can build when it visits the
\* packages in this order: a dict, kept as its (key, list) items in
\* insertion order; each list follows an iteration order of the deps set
build_in_order(repo, order) ==
  IF order = <<>> THEN {<<>>}
  ELSE LET package == Head(order)
           deps == get_package_dependencies(repo, package)
           rest == build_in_order(repo, Tail(order))
       IN  IF deps # {}
           THEN {<< <<package, [i \in DOMAIN l |-> SplitOn(l[i], "-")[1]]>> >> \o g :
                   l \in Perms(deps), g \in rest}
           ELSE rest

(***************************************************************************)
(* Dependency cache: the file, JSON and timestamps                         *)
(***************************************************************************)
CACHE_EXPIRY_DAYS == 7

DigitAtoms == <<"0", "1", "2", "3", "4", "5", "6", "7", "8", "9">>

RECURSIVE Digits(_)
Digits(n) == IF n < 10 THEN <<DigitAtoms[n + 1]>> ELSE Digits(n \div 10) \o <<DigitAtoms[(n % 10) + 1]>>

IsDigit(a) == \E i \in DOMAIN DigitAtoms : DigitAtoms[i] = a

RECURSIVE Number(_)
Number(ds) ==
  IF ds = <<>> THEN 0
  ELSE 10 * Number(SubSeq(ds, 1, Len(ds) - 1))
         + ((CHOOSE i \in DOMAIN DigitAtoms : DigitAtoms[i] = ds[Len(ds)]) - 1)

\* datetime.isoformat(): the clock counts days
isoformat(t) == Digits(t) \o <<"T", "00:00:00">>

\* dateutil parser.parse: raises on text that is no date
parse(text) ==
  IF /\ Len(text) >= 3
     /\ SubSeq(text, Len(text) - 1, Len(text)) = <<"T", "00:00:00">>
     /\ \A i \in 1..(Len(text) - 2) : IsDigit(text[i])
  THEN [exc |-> "none", val |-> Number(SubSeq(text, 1, Len(text) - 2))]
  ELSE [exc |-> "ParserError", val |-> 0]

JStr(text) == [j |-> "string", v |-> text]

JArr(items) == [j |-> "array", v |-> items]

JObj(members) == [j |-> "object", v |-> members]

\* text that is not JSON
Garbage == [j |-> "invalid", v |-> <<>>]

\* json.dump({'timestamp': ..., 'packages': packages}, f)
json_dump(timestamp, packages) ==
  JObj(<< <<"timestamp", JStr(timestamp)>>,
          <<"packages",
            JObj([i \in DOMAIN packages |->
                    <<packages[i][1],
                      JArr([k \in DOMAIN packages[i][2] |-> JStr(packages[i][2][k])])>>])>> >>)

RECURSIVE FromJson(_)
\* the Python value of a JSON value: dict items in file order, list, str
FromJson(x) ==
  CASE x.j = "string" -> x.v
    [] x.j = "array" -> [i \in DOMAIN x.v |-> FromJson(x.v[i])]
    [] OTHER -> [i \in DOMAIN x.v |-> <<x.v[i][1], FromJson(x.v[i][2])>>]

\* json.load(f)
json_load(content) ==
  IF content.j = "invalid" THEN [exc |-> "JSONDecodeError", val |-> <<>>]
  ELSE [exc |-> "none", val |-> FromJson(content)]

HasKey(dict, key) == \E i \in DOMAIN dict : dict[i][1] = key

\* dict[key] of a dict that has the key
Item(dict, key) == dict[CHOOSE i \in DOMAIN dict : dict[i][1] = key][2]

Absent == [exists |-> FALSE, content |-> Garbage]

File(content) == [exists |-> TRUE, content |-> content]

\* load_or_build_high_level_packages that reads the file before it looks at
\* force_rebuild
load_branch_reads_first(file, force_rebuild, clock) ==
  IF file.exists
  THEN LET cache_data == json_load(file.content) IN
       IF cache_data.exc # "none" THEN cache_data.exc
       ELSE IF ~HasKey(cache_data.val, "timestamp") THEN "KeyError"
       ELSE LET stamp == parse(Item(cache_data.val, "timestamp")) IN
            IF stamp.exc # "none" THEN stamp.exc
            ELSE IF (~force_rebuild) /\ clock - stamp.val < CACHE_EXPIRY_DAYS
                 THEN IF HasKey(cache_data.val, "packages") THEN "hit" ELSE "KeyError"
                 ELSE "build"
  ELSE "build"

\* load_or_build_high_level_packages with the window counted in hours
load_branch_hours(file, force_rebuild, clock) ==
  IF (~force_rebuild) /\ file.exists
  THEN LET cache_data == json_load(file.content) IN
       IF cache_data.exc # "none" THEN cache_data.exc
       ELSE IF ~HasKey(cache_data.val, "timestamp") THEN "KeyError"
       ELSE LET stamp == parse(Item(cache_data.val, "timestamp")) IN
            IF stamp.exc # "none" THEN stamp.exc
            ELSE IF (clock - stamp.val) * 24 < CACHE_EXPIRY_DAYS
                 THEN IF HasKey(cache_data.val, "packages") THEN "hit" ELSE "KeyError"
                 ELSE "build"
  ELSE "build"

\* load_or_build_high_level_packages with <= in place of <
load_branch_inclusive(file, force_rebuild, clock) ==
  IF (~force_rebuild) /\ file.exists
  THEN LET cache_data == json_load(file.content) IN
       IF cache_data.exc # "none" THEN cache_data.exc
       ELSE IF ~HasKey(cache_data.val, "timestamp") THEN "KeyError"
       ELSE LET stamp == parse(Item(cache_data.val, "timestamp")) IN
            IF stamp.exc # "none" THEN stamp.exc
            ELSE IF clock - stamp.val <= CACHE_EXPIRY_DAYS
                 THEN IF HasKey(cache_data.val, "packages") THEN "hit" ELSE "KeyError"
                 ELSE "build"
  ELSE "build"

\* the branch load_or_build_high_level_packages takes: the exception it
\* raises, or "hit" (return the stored packages), or "build"
load_branch(file, force_rebuild, clock) ==
  IF (~force_rebuild) /\ file.exists
  THEN LET cache_data == json_load(file.content) IN
       IF cache_data.exc # "none" THEN cache_data.exc
       ELSE IF ~HasKey(cache_data.val, "timestamp") THEN "KeyError"
       ELSE LET stamp == parse(Item(cache_data.val, "timestamp")) IN
            IF stamp.exc # "none" THEN stamp.exc
            ELSE IF clock - stamp.val < CACHE_EXPIRY_DAYS
                 THEN IF HasKey(cache_data.val, "packages") THEN "hit" ELSE "KeyError"
                 ELSE "build"
  ELSE "build"

(***************************************************************************)
(* High-level aggregation                                                  *)
(***************************************************************************)
\* the inverse map in which the first item that lists a package is kept
PACKAGE_TO_HIGH_LEVEL_first(packages) ==
  LET lows == UNION {Range(packages[i][2]) : i \in DOMAIN packages}
      first(low) == CHOOSE i \in DOMAIN packages :
                      /\ low \in Range(packages[i][2])
                      /\ \A j \in DOMAIN packages : low \in Range(packages[j][2]) => i <= j
  IN  [low \in lows |-> packages[first(low)][1]]

\* {low: high for high, lows in HIGH_LEVEL_PACKAGES.items() for low in lows}:
\* a later item overwrites an earlier one
PACKAGE_TO_HIGH_LEVEL(packages) ==
  LET lows == UNION {Range(packages[i][2]) : i \in DOMAIN packages}
      last(low) == CHOOSE i \in DOMAIN packages :
                     /\ low \in Range(packages[i][2])
                     /\ \A j \in DOMAIN packages : low \in Range(packages[j][2]) => j <= i
  IN  [low \in lows |-> packages[last(low)][1]]

\* PACKAGE_TO_HIGH_LEVEL.get(name, name) on the short name of a key
high_level_of(map, package_name) ==
  LET short == SplitOn(package_name, "-")[1] IN
  IF short \in DOMAIN map THEN map[short] ELSE short

\* a rollup that keeps only the groups whose name is an observed package
group_packages_observed(summary, map) ==
  LET highs == {high_level_of(map, k) : k \in DOMAIN summary} \cap DOMAIN summary IN
  [h \in highs |-> UNION {summary[k] : k \in {x \in DOMAIN summary : high_level_of(map, x) = h}}]

\* the high_level_summary print_grand_summary tabulates
group_packages(summary, map) ==
  LET highs == {high_level_of(map, k) : k \in DOMAIN summary} IN
  [h \in highs |-> UNION {summary[k] : k \in {x \in DOMAIN summary : high_level_of(map, x) = h}}]

\* the rows print_grand_summary adds for sorted(set(grand_special_cases)):
\* one row for each distinct (case, binary); the order of the rows is fixed
\* by the sort and is not looked at here
rows_of_set(cases) == CHOOSE q \in Perms(Range(cases)) : TRUE

(***************************************************************************)
(* State                                                                   *)
(***************************************************************************)
VARIABLES
  variant,                  \* which analyzer script runs
  env,                      \* the environment of the process
  pb_in,                    \* what `ldd` did in the latest process_binary call
  pb_out,                   \* what that call returned, or Pending before it has run
  run,                      \* number of the invocation of the script
  now,                      \* the clock, in days
  pc,                       \* where main() is
  argv,                     \* args.paths not yet analyzed
  rebuild_cache,            \* args.rebuild_cache
  walk,                     \* files of the directory being walked, not yet visited
  grand_summary,
  grand_special_cases,
  grand_missing_libraries,
  cache_file,               \* high_level_packages_cache.json
  HIGH_LEVEL_PACKAGES,
  high_level_summary,       \* the rollup print_grand_summary tabulates
  queries,                  \* the repoquery calls of this invocation, in order
  reported,                 \* the paths of the error lines printed for the arguments, in order
  exception,                \* the exception that ended the invocation, or "none"
  exit_code,                \* -1 while the script runs
  origin,                   \* where HIGH_LEVEL_PACKAGES came from: "cache" or "built"
  found,                    \* the cache file as load_or_build_high_level_packages found it
  built,                    \* the latest graph build_high_level_packages returned
  processed,                \* the process_binary calls of this invocation, in order
  special_table,            \* the rows of the special-case table print_grand_summary prints
  lib_path,                 \* the argument of the get_package_info call looked at on its own
  lookup                    \* what that call did, or NoLookup before it has run

Pending == [EmptyResult EXCEPT !.exc = "pending"]

call == <<pb_in, pb_out, processed>>

probe == <<lib_path, lookup>>

tables == <<high_level_summary, special_table>>

accumulators == <<grand_summary, grand_special_cases, grand_missing_libraries>>

graph == <<cache_file, HIGH_LEVEL_PACKAGES, queries, origin, found, built>>

outcome == <<exception, exit_code>>

vars ==
  <<variant, env, pb_in, pb_out, run, now, pc, argv, rebuild_cache, walk,
    grand_summary, grand_special_cases, grand_missing_libraries, cache_file,
    HIGH_LEVEL_PACKAGES, high_level_summary, queries, reported, exception,
    exit_code, origin, found, built, processed, special_table, lib_path, lookup>>

NoBuild == [done |-> FALSE, packages |-> <<>>, at |-> 0, run |-> 0, over |-> {}]

NotLooked == [looked |-> FALSE, file |-> Absent, prior |-> NoBuild]

\* the cache file at the time of the call, and the latest build before it
Looked(file, prior) == [looked |-> TRUE, file |-> file, prior |-> prior]

\* no get_package_info call yet
NoLookup == [called |-> FALSE, resolved |-> NoneV, info |-> NoneV, ran |-> <<>>]

(***************************************************************************)
(* process_binary on its own: every variant on every linker output         *)
(***************************************************************************)
InitPB ==
  /\ variant \in Variants
  /\ env \in ParseEnvs
  /\ walk = <<>>
  /\ grand_summary = EmptyDict
  /\ grand_special_cases = <<>>
  /\ grand_missing_libraries = EmptyDict
  /\ HIGH_LEVEL_PACKAGES = <<>>
  /\ high_level_summary = EmptyDict
  /\ queries = <<>>
  /\ reported = <<>>
  /\ exception = "none"
  /\ exit_code = -1
  /\ origin = "none"
  /\ found = NotLooked
  /\ pb_in \in LddRuns
  /\ pb_out = Pending
  /\ processed = <<>>
  /\ special_table = <<>>
  /\ lib_path = <<>>
  /\ lookup = NoLookup
  /\ run = 1
  /\ now = 0
  /\ pc = "call"
  /\ argv = <<>>
  /\ rebuild_cache = FALSE
  /\ cache_file = Absent
  /\ built = NoBuild

ProcessBinary ==
  /\ pc = "call"
  /\ pb_out = Pending
  /\ pb_out' = process_binary(variant, pb_in, env)
  /\ UNCHANGED <<variant, env, probe, pb_in, processed, run, now, pc, argv, rebuild_cache, walk,
                 accumulators, graph, tables, reported, outcome>>

NextPB == ProcessBinary

SpecPB == InitPB /\ [][NextPB]_vars

(***************************************************************************)
(* get_package_info on its own: every variant on library paths of every    *)
(* kind, under several settings of LD_LIBRARY_PATH                         *)
(***************************************************************************)
CUSTOM_LIBZ == CUSTOM_PREFIX \o <<"/", "lib", "/", "libz.so", ".1">>

LookupPaths ==
  { LIBZ, LIBSSL, LIBMINE, LIBALT, LIBALT_STALE, LIBPQ, LIBPQ_NEXT, CUSTOM_LIBZ, LIBLOCAL,
    <<"/", "gone", "/", "liblocal.so">>, <<"/", "gone", "/", "libnone.so">>,
    <<"/", "gone", "/", "libmine.so">>, <<"liblocal.so">>, <<"/", "opt", "/", "lib">> }

LD_PATH_REVERSED == <<"/", "opt", "/", "lib", ":", "/", "opt", "/", "ld">>

\* LD_LIBRARY_PATH unset, empty, or a list of one to three entries
LookupLdPaths ==
  { NoneV, Some(<<>>), Some(LD_PATH), Some(LD_PATH_REVERSED),
    Some(<<"/", "opt", "/", "lib">>), Some(<<"/", "gone">>),
    Some(<<"/", "gone", ":", "/", "opt", "/", "ld", ":">>) }

LookupEnvs == {Env(ld, fails, {}) : ld \in LookupLdPaths, fails \in SUBSET {LIBMINE, LIBPQ}}

InitLookup ==
  /\ variant \in Variants
  /\ env \in LookupEnvs
  /\ lib_path \in LookupPaths
  /\ lookup = NoLookup
  /\ pc = "lookup"
  /\ run = 1
  /\ now = 0
  /\ argv = <<>>
  /\ rebuild_cache = FALSE
  /\ cache_file = Absent
  /\ built = NoBuild
  /\ walk = <<>>
  /\ grand_summary = EmptyDict
  /\ grand_special_cases = <<>>
  /\ grand_missing_libraries = EmptyDict
  /\ HIGH_LEVEL_PACKAGES = <<>>
  /\ high_level_summary = EmptyDict
  /\ queries = <<>>
  /\ reported = <<>>
  /\ exception = "none"
  /\ exit_code = -1
  /\ origin = "none"
  /\ found = NotLooked
  /\ pb_in = Exit(0, <<>>)
  /\ pb_out = Pending
  /\ processed = <<>>
  /\ special_table = <<>>

\* get_package_info(lib_path) of the variant: the path it asked the owner
\* of, what it returned and the utilities it ran
GetPackageInfo ==
  /\ pc = "lookup"
  /\ ~lookup.called
  /\ lookup' =
       IF variant = "ubuntu"
       THEN [called |-> TRUE, resolved |-> Some(lib_path),
             info |-> lookup_ubuntu(lib_path, env).info,
             ran |-> lookup_ubuntu(lib_path, env).ran]
       ELSE [called |-> TRUE, resolved |-> resolve(lib_path, env),
             info |-> get_package_info(lib_path, env),
             ran |-> IF Truthy(resolve(lib_path, env)) THEN <<"rpm">> ELSE <<>>]
  /\ UNCHANGED <<variant, env, lib_path, call, run, now, pc, argv, rebuild_cache, walk,
                 accumulators, graph, tables, reported, outcome>>

NextLookup == GetPackageInfo

SpecLookup == InitLookup /\ [][NextLookup]_vars

(***************************************************************************)
(* An invocation of the script                                             *)
(***************************************************************************)
MaxPaths == 2

Targets == {BIN_A, APP_DIR, NOPE, MOTD}

ArgLists == UNION {[1..n -> Targets] : n \in 1..MaxPaths}

RunEnvs ==
  { Env(Some(LD_PATH), {}, {}), Env(Some(LD_PATH), {APP_NOTES}, {}),
    Env(Some(LD_PATH), {}, {"repoquery"}), Env(Some(LD_PATH), {}, {"rpm", "repoquery"}) }

Text(lines) == Exit(0, JoinLines(lines))

NotDynamic == Exit(1, <<"\t", "not a dynamic executable", "\n">>)

L_libz == Resolved(<<"libz.so", ".1">>, LIBZ)

L_libssl == Resolved(<<"libssl.so", ".1.1">>, LIBSSL)

L_libalt == Resolved(<<"libalt.so">>, LIBALT_STALE)

L_libmine == Resolved(<<"libmine.so">>, LIBMINE)

L_custom == Arrow(<<"libcustom.so">>, NOT_FOUND)

L_vdso == <<"\t">> \o VDSO \o <<" ", ADDR>>

\* what `ldd <path>` can do for the files the script is pointed at
LddOf(path) ==
  CASE path = BIN_A ->
         { Text(<<L_libz, L_custom, L_vdso>>), Text(<<L_libssl, L_libmine>>),
           Text(<<<<"\t", "libbad.so", " ", "=>">>>>), NotDynamic }
    [] path = APP_X ->
         { Text(<<L_libz, L_custom, L_vdso>>), Text(<<L_libssl, L_libalt>>) }
    [] path = PSQL ->
         { Text(<<>>), Text(<<L_libz>>), Text(<<L_libssl>>), Text(<<L_libalt>>),
           Text(<<L_libz, L_libssl>>), Text(<<L_libz, L_libalt>>),
           Text(<<L_libssl, L_libalt>>), Text(<<L_libz, L_libssl, L_libalt>>) }
    [] OTHER -> {NotDynamic}

\* cache files left behind by something else than this script
StaleFiles ==
  { File(Garbage),
    File(JObj(<< <<"packages", JObj(<<>>)>> >>)),
    File(JObj(<< <<"timestamp", JStr(isoformat(0))>> >>)),
    File(JObj(<< <<"timestamp", JStr(<<"yesterday">>)>>, <<"packages", JObj(<<>>)>> >>)) }

\* the cache file an earlier invocation wrote on day 0
EarlierFiles ==
  { File(json_dump(isoformat(0), << <<<<"zlib">>, <<<<"alt">>>>>> >>)) }

\* the generic variant takes files (-f file ...) or one directory (-d dir)
Init ==
  /\ variant \in Variants
  /\ env \in RunEnvs
  /\ run = 1
  /\ pc \in (CASE variant = "rocky" -> {"boot"}
              [] variant = "ubuntu" -> {"paths"}
              [] OTHER -> {"files", "dir"})
  /\ argv \in (IF pc = "dir" THEN {<<t>> : t \in Targets} ELSE ArgLists)
  /\ rebuild_cache \in (IF variant = "rocky" THEN BOOLEAN ELSE {FALSE})
  /\ cache_file \in (IF variant = "rocky"
                      THEN {Absent} \cup StaleFiles \cup EarlierFiles
                      ELSE {Absent})
  /\ now \in (IF variant = "rocky" THEN {0, CACHE_EXPIRY_DAYS} ELSE {0})
  /\ built = NoBuild
  /\ walk = <<>>
  /\ grand_summary = EmptyDict
  /\ grand_special_cases = <<>>
  /\ grand_missing_libraries = EmptyDict
  /\ HIGH_LEVEL_PACKAGES = <<>>
  /\ high_level_summary = EmptyDict
  /\ queries = <<>>
  /\ reported = <<>>
  /\ exception = "none"
  /\ exit_code = -1
  /\ origin = "none"
  /\ found = NotLooked
  /\ pb_in = Exit(0, <<>>)
  /\ pb_out = Pending
  /\ processed = <<>>
  /\ special_table = <<>>
  /\ lib_path = <<>>
  /\ lookup = NoLookup

\* an uncaught exception ends the invocation with a traceback
Crash(e) ==
  /\ pc' = "crashed"
  /\ exception' = e
  /\ exit_code' = 1

required_commands == {"ldd", "file", "rpm", "repoquery"}

\* shutil.which(cmd) is None
which_is_None(cmd, e) == cmd \in e.missing_commands

\* check_requirements that does not look for repoquery
missing_commands_core(e) ==
  {cmd \in required_commands \ {"repoquery"} : which_is_None(cmd, e)}

\* the missing_commands list of check_requirements
missing_commands(e) == {cmd \in required_commands : which_is_None(cmd, e)}

\* main(), line 290: check_requirements (rockylinux variant only)
CheckRequirements ==
  /\ pc = "boot"
  /\ IF missing_commands(env) # {}
     THEN /\ pc' = "exited"
          /\ exit_code' = 1
     ELSE /\ pc' = "paths"
          /\ UNCHANGED exit_code
  /\ UNCHANGED <<variant, env, probe, call, run, now, argv, rebuild_cache, walk, accumulators,
                 graph, tables, reported, exception>>

\* the ubuntu analyze_path asks is_elf_binary about a file argument, the
\* rockylinux one does not
FileGate(path) ==
  IF variant = "ubuntu" THEN is_elf_binary(path, env) ELSE [exc |-> "none", val |-> TRUE]

\* process_binary(path) and the folding of its result into the accumulators;
\* an exception of the call ends the invocation
ProcessAndFold(path, ldd) ==
  LET result == process_binary(variant, ldd, env) IN
  /\ pb_in' = ldd
  /\ pb_out' = result
  /\ processed' = Append(processed, [path |-> path, ldd |-> ldd, result |-> result])
  /\ IF result.exc # "none"
     THEN /\ Crash(result.exc)
          /\ UNCHANGED <<accumulators, argv, walk>>
     ELSE /\ grand_summary' = add_packages(grand_summary, result.packages)
          /\ grand_special_cases' =
               IF variant = "generic"
               THEN extend_cases(grand_special_cases, result.special_cases)
               ELSE extend_special(grand_special_cases, result.special_cases, path)
          /\ grand_missing_libraries' =
               add_missing(grand_missing_libraries, result.missing_libraries, path)
          /\ UNCHANGED outcome

\* analyze_path on a path that is a file
AnalyzeFile ==
  /\ pc = "paths"
  /\ argv # <<>>
  /\ isfile(Head(argv))
  /\ LET path == Head(argv)
         elf == FileGate(path)
     IN  IF elf.exc # "none"
         THEN /\ Crash(elf.exc)
              /\ UNCHANGED <<call, accumulators, argv, walk>>
         ELSE IF elf.val
              THEN /\ \E ldd \in LddOf(path) : ProcessAndFold(path, ldd)
                   /\ IF pb_out'.exc = "none"
                      THEN argv' = Tail(argv) /\ UNCHANGED <<pc, walk>>
                      ELSE TRUE
              ELSE /\ argv' = Tail(argv)
                   /\ UNCHANGED <<call, accumulators, pc, walk, outcome>>
  /\ UNCHANGED <<variant, env, probe, run, now, rebuild_cache, graph, tables, reported>>

\* analyze_path on a directory: os.walk lists its files in some order
AnalyzeDir ==
  /\ pc = "paths"
  /\ argv # <<>>
  /\ ~isfile(Head(argv))
  /\ isdir(Head(argv))
  /\ \E order \in Perms(FilesUnder(Head(argv))) :
       /\ walk' = order
       /\ IF order = <<>>
          THEN argv' = Tail(argv) /\ UNCHANGED pc
          ELSE pc' = "walk" /\ UNCHANGED argv
  /\ UNCHANGED <<variant, env, probe, call, run, now, rebuild_cache, accumulators, graph,
                 tables, reported, outcome>>

\* one pass of the loop over the files of the walked directory
WalkFile ==
  /\ pc = "walk"
  /\ walk # <<>>
  /\ LET file_path == Head(walk)
         elf == is_elf_binary(file_path, env)
         leave == /\ walk' = Tail(walk)
                  /\ IF Tail(walk) = <<>>
                     THEN pc' = "paths" /\ argv' = Tail(argv)
                     ELSE UNCHANGED <<pc, argv>>
     IN  IF elf.exc # "none"
         THEN /\ Crash(elf.exc)
              /\ UNCHANGED <<call, accumulators, argv, walk>>
         ELSE IF elf.val
              THEN /\ \E ldd \in LddOf(file_path) : ProcessAndFold(file_path, ldd)
                   /\ IF pb_out'.exc = "none" THEN leave ELSE TRUE
              ELSE /\ leave
                   /\ UNCHANGED <<call, accumulators, outcome>>
  /\ UNCHANGED <<variant, env, probe, run, now, rebuild_cache, graph, tables, reported>>

\* analyze_path on a path that is neither: an error line is printed
AnalyzeInvalid ==
  /\ pc = "paths"
  /\ argv # <<>>
  /\ ~isfile(Head(argv))
  /\ ~isdir(Head(argv))
  /\ reported' = Append(reported, Head(argv))
  /\ argv' = Tail(argv)
  /\ UNCHANGED <<variant, env, probe, call, run, now, pc, rebuild_cache, walk, accumulators,
                 graph, tables, outcome>>

\* the generic __main__, lines 255-263: one pass of the loop over args.file
GenericFile ==
  /\ variant = "generic"
  /\ pc = "files"
  /\ argv # <<>>
  /\ IF isfile(Head(argv))
     THEN /\ \E ldd \in LddOf(Head(argv)) : ProcessAndFold(Head(argv), ldd)
          /\ IF pb_out'.exc = "none"
             THEN argv' = Tail(argv) /\ UNCHANGED <<pc, walk, reported>>
             ELSE UNCHANGED reported
     ELSE /\ reported' = Append(reported, Head(argv))
          /\ argv' = Tail(argv)
          /\ UNCHANGED <<call, accumulators, pc, walk, outcome>>
  /\ UNCHANGED <<variant, env, probe, run, now, rebuild_cache, graph, tables>>

\* the generic __main__, lines 265-267: the grand summary of file mode is
\* printed only when more than one file was given
GenericSummary ==
  /\ variant = "generic"
  /\ pc = "files"
  /\ argv = <<>>
  /\ LET printed == /\ Len(processed) + Len(reported) > 1
                    /\ (grand_summary # EmptyDict \/ grand_special_cases # <<>>)
     IN  /\ high_level_summary' = IF printed THEN grand_summary ELSE EmptyDict
         /\ special_table' = IF printed THEN rows_of_set(grand_special_cases) ELSE <<>>
  /\ pc' = "done"
  /\ exit_code' = 0
  /\ UNCHANGED <<variant, env, probe, call, run, now, argv, rebuild_cache, walk, accumulators,
                 graph, reported, exception>>

\* the generic __main__, lines 269-273, and process_directory: os.walk
\* lists the files of the directory in some order
GenericDir ==
  /\ variant = "generic"
  /\ pc = "dir"
  /\ IF isdir(Head(argv))
     THEN /\ \E order \in Perms(FilesUnder(Head(argv))) :
               /\ walk' = order
               /\ IF order = <<>>
                  THEN pc' = "paths" /\ argv' = Tail(argv)
                  ELSE pc' = "walk" /\ UNCHANGED argv
          /\ UNCHANGED <<reported, outcome>>
     ELSE /\ reported' = Append(reported, Head(argv))
          /\ argv' = Tail(argv)
          /\ pc' = "done"
          /\ exit_code' = 0
          /\ UNCHANGED <<walk, exception>>
  /\ UNCHANGED <<variant, env, probe, call, run, now, rebuild_cache, accumulators, graph,
                 tables>>

AtCache == variant = "rocky" /\ pc = "paths" /\ argv = <<>>

\* a hit that writes the record back with the time of the use
CacheHit_touch ==
  /\ AtCache
  /\ load_branch(cache_file, rebuild_cache, now) = "hit"
  /\ HIGH_LEVEL_PACKAGES' = Item(json_load(cache_file.content).val, "packages")
  /\ cache_file' =
       File(json_dump(isoformat(now), Item(json_load(cache_file.content).val, "packages")))
  /\ origin' = "cache"
  /\ found' = Looked(cache_file, built)
  /\ pc' = "loaded"
  /\ UNCHANGED <<variant, env, probe, call, run, now, argv, rebuild_cache, walk, accumulators,
                 queries, built, tables, reported, outcome>>

\* a hit that gives every observed package the stored graph lacks an entry
CacheHit_fill ==
  /\ AtCache
  /\ load_branch(cache_file, rebuild_cache, now) = "hit"
  /\ LET stored == Item(json_load(cache_file.content).val, "packages")
         lacking == {q \in all_packages(grand_summary) : ~HasKey(stored, q)}
         order == CHOOSE o \in Perms(lacking) : TRUE
     IN  HIGH_LEVEL_PACKAGES' = stored \o [i \in DOMAIN order |-> <<order[i], <<>>>>]
  /\ origin' = "cache"
  /\ found' = Looked(cache_file, built)
  /\ pc' = "loaded"
  /\ UNCHANGED <<variant, env, probe, call, run, now, argv, rebuild_cache, walk, accumulators,
                 cache_file, queries, built, tables, reported, outcome>>

\* load_or_build_high_level_packages returns the stored packages
CacheHit ==
  /\ AtCache
  /\ load_branch(cache_file, rebuild_cache, now) = "hit"
  /\ HIGH_LEVEL_PACKAGES' = Item(json_load(cache_file.content).val, "packages")
  /\ origin' = "cache"
  /\ found' = Looked(cache_file, built)
  /\ pc' = "loaded"
  /\ UNCHANGED <<variant, env, probe, call, run, now, argv, rebuild_cache, walk, accumulators,
                 cache_file, queries, built, tables, reported, outcome>>

\* load_or_build_high_level_packages raises while it reads the cache file
CacheError ==
  /\ AtCache
  /\ load_branch(cache_file, rebuild_cache, now) \notin {"hit", "build"}
  /\ Crash(load_branch(cache_file, rebuild_cache, now))
  /\ found' = Looked(cache_file, built)
  /\ UNCHANGED <<variant, env, probe, call, run, now, argv, rebuild_cache, walk, accumulators,
                 cache_file, HIGH_LEVEL_PACKAGES, queries, origin, built,
                 tables, reported>>

\* load_or_build_high_level_packages builds the graph and writes the file
CacheRebuild ==
  /\ AtCache
  /\ load_branch(cache_file, rebuild_cache, now) = "build"
  /\ \E repo \in Repos :
       \E order \in Perms(all_packages(grand_summary)) :
         \E packages \in build_in_order(repo, order) :
           /\ queries' = [i \in DOMAIN order |->
                            [package |-> order[i], rc |-> repoquery(repo, order[i]).rc,
                             out |-> repoquery(repo, order[i]).out]]
           /\ HIGH_LEVEL_PACKAGES' = packages
           /\ cache_file' = File(json_dump(isoformat(now), packages))
           /\ built' = [done |-> TRUE, packages |-> packages, at |-> now, run |-> run,
                         over |-> Range(order)]
  /\ origin' = "built"
  /\ found' = Looked(cache_file, built)
  /\ pc' = "loaded"
  /\ UNCHANGED <<variant, env, probe, call, run, now, argv, rebuild_cache, walk, accumulators,
                 tables, reported, outcome>>

\* main(), lines 301-302: the inverse map and print_grand_summary; the
\* ubuntu variant tabulates grand_summary as it is
PrintGrandSummary ==
  /\ \/ variant = "rocky" /\ pc = "loaded"
     \/ variant \in {"ubuntu", "generic"} /\ pc = "paths" /\ argv = <<>>
  /\ high_level_summary' =
       IF grand_summary # EmptyDict \/ grand_special_cases # <<>>
            \/ grand_missing_libraries # EmptyDict
       THEN IF variant = "rocky"
            THEN group_packages(grand_summary, PACKAGE_TO_HIGH_LEVEL(HIGH_LEVEL_PACKAGES))
            ELSE grand_summary
       ELSE EmptyDict
  /\ special_table' = rows_of_set(grand_special_cases)
  /\ pc' = "done"
  /\ exit_code' = 0
  /\ UNCHANGED <<variant, env, probe, call, run, now, argv, rebuild_cache, walk, accumulators,
                 graph, reported, exception>>

Next ==
  \/ CheckRequirements
  \/ AnalyzeFile
  \/ AnalyzeDir
  \/ WalkFile
  \/ AnalyzeInvalid
  \/ GenericFile
  \/ GenericDir
  \/ GenericSummary
  \/ CacheHit
  \/ CacheError
  \/ CacheRebuild
  \/ PrintGrandSummary

Spec == Init /\ [][Next]_vars

(***************************************************************************)
(* Invocations one after the other, over the same cache file               *)
(***************************************************************************)
MaxRuns == 3

\* days between two invocations
Advances == {0, 3, 4, 7}

InitCache ==
  /\ variant = "rocky"
  /\ env = Env(Some(LD_PATH), {}, {})
  /\ run = 1
  /\ pc = "boot"
  /\ argv = <<PSQL>>
  /\ rebuild_cache \in BOOLEAN
  /\ cache_file \in {Absent} \cup StaleFiles
  /\ now = 0
  /\ built = NoBuild
  /\ walk = <<>>
  /\ grand_summary = EmptyDict
  /\ grand_special_cases = <<>>
  /\ grand_missing_libraries = EmptyDict
  /\ HIGH_LEVEL_PACKAGES = <<>>
  /\ high_level_summary = EmptyDict
  /\ queries = <<>>
  /\ reported = <<>>
  /\ exception = "none"
  /\ exit_code = -1
  /\ origin = "none"
  /\ found = NotLooked
  /\ pb_in = Exit(0, <<>>)
  /\ pb_out = Pending
  /\ processed = <<>>
  /\ special_table = <<>>
  /\ lib_path = <<>>
  /\ lookup = NoLookup

\* the script is started again, later, on the same machine
NextRun ==
  /\ pc \in {"done", "crashed", "exited"}
  /\ run < MaxRuns
  /\ run' = run + 1
  /\ \E days \in Advances : now' = now + days
  /\ rebuild_cache' \in BOOLEAN
  /\ argv' = <<PSQL>>
  /\ pc' = "boot"
  /\ walk' = <<>>
  /\ grand_summary' = EmptyDict
  /\ grand_special_cases' = <<>>
  /\ grand_missing_libraries' = EmptyDict
  /\ HIGH_LEVEL_PACKAGES' = <<>>
  /\ high_level_summary' = EmptyDict
  /\ queries' = <<>>
  /\ reported' = <<>>
  /\ exception' = "none"
  /\ exit_code' = -1
  /\ origin' = "none"
  /\ found' = NotLooked
  /\ pb_in' = Exit(0, <<>>)
  /\ pb_out' = Pending
  /\ processed' = <<>>
  /\ special_table' = <<>>
  /\ UNCHANGED <<variant, env, probe, cache_file, built>>

NextCache ==
  \/ CheckRequirements
  \/ AnalyzeFile
  \/ CacheHit
  \/ CacheError
  \/ CacheRebuild
  \/ PrintGrandSummary
  \/ NextRun

SpecCache == InitCache /\ [][NextCache]_vars

(***************************************************************************)
(* Statements about process_binary                                         *)
(***************************************************************************)
\* the lines process_binary iterates over
InLines == IF pb_in.rc = 0 THEN SplitLines(pb_in.out) ELSE <<>>

Returned == pc = "call" /\ pb_out # Pending

\* line i was classified by the loop body
Classified(i) == i \in DOMAIN pb_out.kinds

\* how many of the first i lines were classified as kind k
CountKind(k, i) == Cardinality({j \in 1..i : Classified(j) /\ pb_out.kinds[j] = k})

LibName(line) == Strip(SplitOn(line, "=>")[1])

\* C5: every line containing "not found" is classified as missing, and the
\* entry it adds to the missing libraries is the name before "=>"; it adds
\* nothing to the special cases or the packages.  Stated for the calls whose
\* loop ran to the end, and for the lines that name no known virtual entry
\* (those are the subject of C6).
C5_NotFoundIsMissing ==
  (Returned /\ pb_out.exc = "none") =>
    \A i \in DOMAIN InLines :
      (/\ Contains(InLines[i], NOT_FOUND)
       /\ ~\E special \in known_special_cases : Contains(InLines[i], special)) =>
        /\ Classified(i)
        /\ pb_out.kinds[i] = "missing"
        /\ pb_out.missing_libraries[CountKind("missing", i)] = LibName(InLines[i])

\* C6: a line containing the name of a known virtual entry adds nothing to
\* the missing libraries and nothing to the special cases
C6_VirtualExcluded ==
  Returned =>
    \A i \in DOMAIN InLines :
      (Classified(i) /\ \E special \in known_special_cases : Contains(InLines[i], special))
        => pb_out.kinds[i] \notin {"missing", "special"}

\* C10: no line makes the loop raise: every line is classified and the loop
\* reaches the last line; a line without "=>" that is not a known virtual
\* entry degrades to a special case
C10_NoThrowOnMalformed ==
  Returned =>
    /\ pb_out.exc = "none"
    /\ \A i \in DOMAIN InLines :
         /\ Classified(i)
         /\ (/\ ~Contains(InLines[i], <<"=>">>)
             /\ ~Contains(InLines[i], NOT_FOUND)
             /\ ~\E special \in known_special_cases : Contains(InLines[i], special))
              => pb_out.kinds[i] = "special"

\* the line has the resolved shape: name => path (address)
ResolvedShape(line) ==
  /\ Len(SplitOn(line, "=>")) = 2
  /\ Len(SplitWs(SplitOn(line, "=>")[2])) = 2
  /\ SplitWs(SplitOn(line, "=>")[2])[2] = <<ADDR>>

\* the path the linker resolved the library of a line to
PathOf(line) == SplitWs(SplitOn(line, "=>")[2])[1]

InCoreTable(path) ==
  \E i \in DOMAIN core_libs : StartsWith(Basename(path), <<core_libs[i][1]>>)

\* the library of the line is a file the package manager attributes to no
\* package and, on the ubuntu variant, no core-library pattern matches
Unowned(line) ==
  /\ ResolvedShape(line)
  /\ isfile(PathOf(line))
  /\ IF variant = "ubuntu"
     THEN /\ ~StartsWith(realpath(PathOf(line)), CUSTOM_PREFIX)
          /\ dpkg_S(realpath(PathOf(line))).rc # 0
          /\ ~InCoreTable(realpath(PathOf(line)))
     ELSE rpm_qf(PathOf(line)).rc # 0

\* C12: a line whose library is unowned is recorded as a special case and
\* adds nothing to the packages; the loop goes on with the next line
C12_UnownedIsSpecial ==
  Returned =>
    \A i \in DOMAIN InLines :
      (Classified(i) /\ Unowned(InLines[i])) =>
        /\ pb_out.kinds[i] = "special"
        /\ (i < Len(InLines) /\ pb_out.exc = "none") => Classified(i + 1)

(***************************************************************************)
(* Statements about the package ownership lookup                           *)
(***************************************************************************)
\* path lies in the directory tree under directory
Beneath(path, directory) == StartsWith(path, directory \o <<"/">>)

IsCustom(info) == (~info.none) /\ info.val[1] = <<"cloudberry-custom">>

\* C11: the ubuntu get_package_info returns the synthetic package
\* cloudberry-custom for every path beneath /usr/local/cloudberry-db, without
\* running any utility, and for no path that is not beneath it
C11_CustomPrefixPrecedence ==
  (lookup.called /\ variant = "ubuntu") =>
    /\ Beneath(lib_path, CUSTOM_PREFIX) => (IsCustom(lookup.info) /\ lookup.ran = <<>>)
    /\ ~Beneath(lib_path, CUSTOM_PREFIX) => ~IsCustom(lookup.info)

\* the directories LD_LIBRARY_PATH lists, in order; none when it is unset
\* or empty
ListedDirs ==
  IF env.LD_LIBRARY_PATH.none THEN <<>>
  ELSE SelectSeq(SplitOn(env.LD_LIBRARY_PATH.val, ":"), LAMBDA d : d # <<>>)

\* the positions of the listed directories that hold a file of that name
Holding(name) ==
  {i \in DOMAIN ListedDirs : isfile(PathJoin(ListedDirs[i], name))}

\* C19: the rockylinux and generic get_package_info use a path that is a
\* file unchanged; otherwise the first listed directory that holds a file of
\* the same base name gives the path; when no listed directory holds one,
\* also when LD_LIBRARY_PATH is unset or empty, the resolution fails and no
\* package is returned
C19_PathResolution ==
  (lookup.called /\ variant # "ubuntu") =>
    IF isfile(lib_path) THEN lookup.resolved = Some(lib_path)
    ELSE IF Holding(Basename(lib_path)) # {}
         THEN LET i == CHOOSE k \in Holding(Basename(lib_path)) :
                         \A j \in Holding(Basename(lib_path)) : k <= j
              IN  lookup.resolved = Some(PathJoin(ListedDirs[i], Basename(lib_path)))
         ELSE lookup.resolved.none /\ lookup.info.none

(***************************************************************************)
(* Statements about the dependency cache and the graph builder             *)
(***************************************************************************)
Readable(file) == file.exists /\ json_load(file.content).exc = "none"

Stamped(file) ==
  /\ Readable(file)
  /\ HasKey(json_load(file.content).val, "timestamp")
  /\ parse(Item(json_load(file.content).val, "timestamp")).exc = "none"

\* now - timestamp of a stamped file
Age(file) == now - parse(Item(json_load(file.content).val, "timestamp")).val

Stored(file) == Item(json_load(file.content).val, "packages")

Queried == {queries[i].package : i \in DOMAIN queries}

CacheExceptions == {"JSONDecodeError", "KeyError", "ParserError"}

\* the file load_or_build_high_level_packages found was persisted by a build
\* of an earlier invocation
FoundBuilt == found.looked /\ found.prior.done /\ found.prior.run < run

\* C1: a call without force_rebuild that finds the file persisted by an
\* earlier build, stamped less than CACHE_EXPIRY_DAYS ago, returns the graph
\* that was built and issues no requirements query
C1_CacheRoundTrip ==
  (FoundBuilt /\ ~rebuild_cache /\ Stamped(found.file)
     /\ Age(found.file) < CACHE_EXPIRY_DAYS) =>
    /\ exception = "none"
    /\ origin = "cache"
    /\ HIGH_LEVEL_PACKAGES = found.prior.packages
    /\ queries = <<>>

C1_Witness ==
  /\ FoundBuilt /\ ~rebuild_cache
  /\ origin = "cache"
  /\ now > found.prior.at
  /\ Len(found.prior.packages) >= 2

\* C2: a call that finds a record whose age is not less than
\* CACHE_EXPIRY_DAYS does not return it: it queries the packages of this
\* invocation, writes the rebuilt graph with the current time and returns it
C2_ExpiredIsRebuilt ==
  (found.looked /\ Stamped(found.file) /\ Age(found.file) >= CACHE_EXPIRY_DAYS) =>
    /\ exception = "none"
    /\ origin = "built"
    /\ built.run = run
    /\ HIGH_LEVEL_PACKAGES = built.packages
    /\ Queried = all_packages(grand_summary)
    /\ cache_file = File(json_dump(isoformat(now), HIGH_LEVEL_PACKAGES))

C2_Witness ==
  /\ found.looked /\ ~rebuild_cache
  /\ Stamped(found.file) /\ Age(found.file) >= CACHE_EXPIRY_DAYS
  /\ HasKey(json_load(found.file.content).val, "packages")
  /\ Stored(found.file) # <<>>
  /\ origin = "built"
  /\ HIGH_LEVEL_PACKAGES # Stored(found.file)

\* C13: the cache is keyed globally: a call without force_rebuild that finds
\* the record of an earlier build within the expiry window returns the stored
\* graph as it is, whatever packages this invocation observed, issues no
\* requirements query, and the packages observed now that the build was not
\* run over have no entry in the returned graph
C13_CacheKeyedGlobally ==
  (FoundBuilt /\ ~rebuild_cache /\ Stamped(found.file)
     /\ Age(found.file) < CACHE_EXPIRY_DAYS) =>
    /\ origin = "cache"
    /\ HIGH_LEVEL_PACKAGES = Stored(found.file)
    /\ queries = <<>>
    /\ \A q \in all_packages(grand_summary) \ found.prior.over :
         ~HasKey(HIGH_LEVEL_PACKAGES, q)

C13_Witness ==
  /\ FoundBuilt /\ ~rebuild_cache
  /\ origin = "cache"
  /\ HIGH_LEVEL_PACKAGES # <<>>
  /\ all_packages(grand_summary) # {}
  /\ found.prior.over # {}
  /\ all_packages(grand_summary) \cap found.prior.over = {}

\* C14: a call with force_rebuild never returns the stored graph, whatever
\* the file holds: it queries the packages of this invocation, overwrites the
\* file with the new graph and the current time, and returns the new graph
C14_ForcedIsRebuilt ==
  (found.looked /\ rebuild_cache) =>
    /\ exception = "none"
    /\ origin = "built"
    /\ built.run = run /\ built.at = now
    /\ built.over = all_packages(grand_summary)
    /\ Queried = all_packages(grand_summary)
    /\ HIGH_LEVEL_PACKAGES = built.packages
    /\ cache_file = File(json_dump(isoformat(now), built.packages))

\* a forced call that found the fresh record of an earlier build
C14_Witness ==
  /\ found.looked /\ rebuild_cache
  /\ FoundBuilt /\ Age(found.file) < CACHE_EXPIRY_DAYS
  /\ HIGH_LEVEL_PACKAGES # found.prior.packages

\* C21: a call that returns the stored graph leaves the cache file as it
\* found it, with the time and the graph of the build that wrote it, so the
\* window runs from the build and not from the latest use: the graph
\* returned was built less than CACHE_EXPIRY_DAYS ago
C21_HitLeavesFileUnchanged ==
  origin = "cache" =>
    /\ cache_file = found.file
    /\ built.done /\ built.run < run
    /\ cache_file = File(json_dump(isoformat(built.at), built.packages))
    /\ HIGH_LEVEL_PACKAGES = built.packages
    /\ now - built.at < CACHE_EXPIRY_DAYS

\* the second use of a record, six days after its build and three days
\* after its first use
C21_Witness ==
  /\ origin = "cache"
  /\ run = 3 /\ built.run = 1
  /\ now - built.at = 6
  /\ HIGH_LEVEL_PACKAGES # <<>>

Malformed(file) ==
  \/ ~file.exists
  \/ ~Readable(file)
  \/ ~Stamped(file)
  \/ ~HasKey(json_load(file.content).val, "packages")

\* C3: a call that finds no cache file, or a malformed one, raises nothing:
\* it rebuilds the graph, writes it and returns it
C3_MalformedIsMiss ==
  (found.looked /\ Malformed(found.file)) =>
    /\ exception = "none"
    /\ origin = "built"
    /\ cache_file = File(json_dump(isoformat(now), HIGH_LEVEL_PACKAGES))

NoOutput(q) == q.rc = 0 /\ Strip(q.out) = <<>>

\* C4 as stated: every observed short name is a key of the built graph, and
\* the key of a package whose query failed or printed nothing maps to the
\* empty list
C4_FailedGetsEmptySet ==
  origin = "built" =>
    /\ Queried = all_packages(grand_summary)
    /\ \A i \in DOMAIN queries :
         /\ HasKey(HIGH_LEVEL_PACKAGES, queries[i].package)
         /\ (queries[i].rc # 0 \/ NoOutput(queries[i]))
              => Item(HIGH_LEVEL_PACKAGES, queries[i].package) = <<>>

\* C4 amended: every key of the built graph is an observed short name; a
\* package whose query failed has no key; a package whose query printed
\* nothing is a key that maps to the list of the one empty name
C4_FailedIsOmitted ==
  origin = "built" =>
    /\ Queried = all_packages(grand_summary)
    /\ \A i \in DOMAIN HIGH_LEVEL_PACKAGES :
         HIGH_LEVEL_PACKAGES[i][1] \in all_packages(grand_summary)
    /\ \A i \in DOMAIN queries :
         /\ queries[i].rc # 0 => ~HasKey(HIGH_LEVEL_PACKAGES, queries[i].package)
         /\ queries[i].rc = 0 => HasKey(HIGH_LEVEL_PACKAGES, queries[i].package)
         /\ NoOutput(queries[i])
              => Item(HIGH_LEVEL_PACKAGES, queries[i].package) = << <<>> >>

C4_Witness ==
  /\ origin = "built"
  /\ \E i \in DOMAIN queries : queries[i].rc # 0
  /\ \E i \in DOMAIN queries : NoOutput(queries[i])

(***************************************************************************)
(* Statements about the high-level rollup                                  *)
(***************************************************************************)
Rolled == pc = "done" /\ variant = "rocky"

Discovered == UNION {grand_summary[k] : k \in DOMAIN grand_summary}

GroupsOf(full) == {h \in DOMAIN high_level_summary : full \in high_level_summary[h]}

\* C7: every full package identifier of the grand summary is in the
\* included set of exactly one group of the rollup
C7_GroupingIsPartition ==
  Rolled => \A full \in Discovered : Cardinality(GroupsOf(full)) = 1

C7_Witness ==
  /\ Rolled
  /\ origin = "cache"
  /\ Cardinality(DOMAIN high_level_summary) >= 2
  /\ \E h \in DOMAIN high_level_summary :
       h \notin DOMAIN grand_summary /\ high_level_summary[h] # {}

\* the full identifiers observed for a short name
Ids(p) == IF p \in DOMAIN grand_summary THEN grand_summary[p] ELSE {}

\* the dependency list of a key of the graph
Edges(p) ==
  IF HasKey(HIGH_LEVEL_PACKAGES, p) THEN Range(Item(HIGH_LEVEL_PACKAGES, p)) ELSE {}

RECURSIVE Closure(_, _)
Closure(S, n) ==
  IF n = 0 THEN S ELSE Closure(S \cup UNION {Edges(x) : x \in S}, n - 1)

\* every package p transitively depends on
Reach(p) == Closure(Edges(p), Len(HIGH_LEVEL_PACKAGES))

\* C8 as stated: the group of H holds the identifiers of H and of every
\* observed package H transitively depends on
C8_GroupIsTransitiveClosure ==
  Rolled =>
    \A h \in DOMAIN high_level_summary :
      high_level_summary[h] = Ids(h) \cup UNION {Ids(d) : d \in Reach(h)}

\* the keys of the graph that list p, by position
Listing(p) ==
  {i \in DOMAIN HIGH_LEVEL_PACKAGES : p \in Range(HIGH_LEVEL_PACKAGES[i][2])}

\* h is the group of the observed package k: the last key that lists k, or
\* k itself when no key lists it
GroupOf(k, h) ==
  IF Listing(k) = {} THEN h = k
  ELSE \E i \in Listing(k) :
         /\ HIGH_LEVEL_PACKAGES[i][1] = h
         /\ \A j \in Listing(k) : j <= i

\* C8 amended: the group of H holds the identifiers of the observed packages
\* whose last listing key is H, and those of H itself when no key lists H;
\* only direct dependencies count
C8_GroupIsLastParent ==
  Rolled =>
    /\ \A h \in DOMAIN high_level_summary :
         high_level_summary[h] =
           UNION {grand_summary[k] : k \in {x \in DOMAIN grand_summary : GroupOf(x, h)}}
    /\ \A k \in DOMAIN grand_summary :
         \E h \in DOMAIN high_level_summary : GroupOf(k, h)

C8_Witness ==
  /\ Rolled
  /\ \E k \in DOMAIN grand_summary :
       /\ Cardinality(Listing(k)) >= 2
       /\ \E h \in DOMAIN high_level_summary :
            h # k /\ grand_summary[k] \subseteq high_level_summary[h]

(***************************************************************************)
(* Statements about an invocation as a whole                               *)
(***************************************************************************)
\* the process_binary calls whose result was folded into the accumulators
Folded == {i \in DOMAIN processed : processed[i].result.exc = "none"}

\* the (package_name, full_package_name) tuples the folded calls returned
FoundPackages == UNION {Range(processed[i].result.packages) : i \in Folded}

\* the (case, binary) pairs of the folded calls
FoundCases ==
  UNION {{<<case, processed[i].path>> : case \in Range(processed[i].result.special_cases)} :
           i \in Folded}

LinesOf(ldd) == IF ldd.rc = 0 THEN SplitLines(ldd.out) ELSE <<>>

\* the linker output reports the library lib missing
ReportsMissing(ldd, lib) ==
  \E i \in DOMAIN LinesOf(ldd) :
    /\ Contains(LinesOf(ldd)[i], NOT_FOUND)
    /\ ~\E special \in known_special_cases : Contains(LinesOf(ldd)[i], special)
    /\ LibName(LinesOf(ldd)[i]) = lib

\* the names the linker reported missing for some processed binary
MissingNames ==
  UNION {{LibName(LinesOf(processed[i].ldd)[j]) :
            j \in {n \in DOMAIN LinesOf(processed[i].ldd) :
                     ReportsMissing(processed[i].ldd, LibName(LinesOf(processed[i].ldd)[n]))}} :
           i \in Folded}

\* C15: at the end of a run of the rockylinux or ubuntu analyzer, a full
\* package identifier found by any number of binaries is once in the grand
\* summary, under its package name; the referenced-by set of a missing
\* library is the set of the binaries whose linker output reported it
\* missing; the special-case table has one row for each distinct
\* (case, binary)
C15_GrandSummaryAccumulates ==
  (pc = "done" /\ variant \in {"rocky", "ubuntu"}) =>
    /\ DOMAIN grand_summary = {pk[1] : pk \in FoundPackages}
    /\ \A k \in DOMAIN grand_summary :
         grand_summary[k] = {pk[2] : pk \in {x \in FoundPackages : x[1] = k}}
    /\ \A pk \in FoundPackages :
         Cardinality({k \in DOMAIN grand_summary : pk[2] \in grand_summary[k]}) = 1
    /\ DOMAIN grand_missing_libraries = MissingNames
    /\ \A lib \in MissingNames :
         grand_missing_libraries[lib] =
           {processed[i].path : i \in {n \in Folded : ReportsMissing(processed[n].ldd, lib)}}
    /\ Range(special_table) = FoundCases
    /\ Len(special_table) = Cardinality(FoundCases)

\* C16: when an argument is neither a file nor a directory, an error line is
\* printed for it, the arguments after it are still analyzed, and the run
\* ends with a non-zero exit code
C16_InvalidPathExitsNonZero ==
  (pc = "done" /\ variant = "rocky" /\ reported # <<>>) =>
    /\ \A i \in DOMAIN reported : ~isfile(reported[i]) /\ ~isdir(reported[i])
    /\ argv = <<>>
    /\ exit_code \notin {-1, 0}

\* C17: when one of ldd, file, rpm, repoquery is not installed, the
\* rockylinux analyzer exits with code 1 from its first step: no path is
\* analyzed, no binary processed, the cache file neither read nor written
C17_MissingToolingIsFatal ==
  (variant = "rocky" /\ env.missing_commands \cap {"ldd", "file", "rpm", "repoquery"} # {}) =>
    /\ pc \in {"boot", "exited"}
    /\ pc = "exited" => exit_code = 1
    /\ argv # <<>>
    /\ processed = <<>> /\ pb_out = Pending /\ reported = <<>>
    /\ grand_summary = EmptyDict /\ grand_special_cases = <<>>
    /\ grand_missing_libraries = EmptyDict
    /\ ~found.looked /\ ~built.done /\ origin = "none" /\ queries = <<>>

C17_Witness ==
  /\ variant = "rocky"
  /\ pc = "exited" /\ exit_code = 1
  /\ env.missing_commands = {"repoquery"}
  /\ Len(argv) = 2
  /\ cache_file \in EarlierFiles

\* C18: requirements queries are issued only once every path argument has
\* been analyzed, and a run that rebuilds the graph issues exactly one query
\* for each package name of its grand summary and none for any other name
C18_OneQueryPerObservedPackage ==
  /\ queries # <<>> =>
       /\ origin = "built"
       /\ pc \in {"loaded", "done"} /\ argv = <<>> /\ walk = <<>>
  /\ origin = "built" =>
       /\ DOMAIN grand_summary = {pk[1] : pk \in FoundPackages}
       /\ Queried = DOMAIN grand_summary
       /\ \A i, j \in DOMAIN queries : queries[i].package = queries[j].package => i = j

\* a rebuild after two binaries that share a package
C18_Witness ==
  /\ origin = "built"
  /\ Len(queries) >= 2
  /\ Cardinality(Folded) >= 2
  /\ \E i, j \in Folded :
       /\ i # j
       /\ Range(processed[i].result.packages) \cap Range(processed[j].result.packages) # {}

(***************************************************************************)
(* Statements about the binary classifier                                  *)
(***************************************************************************)
\* C20: process_binary is called only on paths is_elf_binary accepts, be the
\* path an argument or a file found by the walk of a directory
C20_OnlyElfIsProcessed ==
  \A i \in DOMAIN processed :
    /\ is_elf_binary(processed[i].path, env).exc = "none"
    /\ is_elf_binary(processed[i].path, env).val

\* C9: a failing file-type inspection makes is_elf_binary return false: the
\* walk goes on and no invocation ends with the TypeError of is_elf_binary
C9_InspectionFailureIsFalse ==
  /\ exception # "TypeError"
  /\ (pc = "walk" /\ walk # <<>>) => is_elf_binary(Head(walk), env).exc = "none"

====
